---- MODULE Spec2Model ----
(***************************************************************************)
(* Model of sitemap_extractor.py (kingbeto/proficrawler).                  *)
(*                                                                         *)
(* Strings are sequences of tokens: a token is a piece of text that the    *)
(* program never looks inside ("sitemap", "_products", "NOT FOUND", a      *)
(* newline "\n", a blank " ").  Substring tests, prefix tests, split and   *)
(* strip are computed on these sequences the way Python computes them on   *)
(* characters.  A page that is None or the empty string is a page record   *)
(* whose body field says so.                                               *)
(***************************************************************************)
EXTENDS Integers, Sequences, FiniteSets, TLC

VARIABLES
    pc,                  \* position of the process in the script
    exit_code,           \* -1 while running, else the process exit status
    SITEMAP_URL,         \* line 19
    OPENAI_API_KEY,      \* line 23: TRUE when a credential is configured
    MAX_PRODUCTS,        \* line 24
    FORCE_MODE,          \* line 26
    input_csv,           \* the file INPUT_CSV: [exists, rows]
    product_codes,       \* main: the allow-list read from INPUT_CSV
    xml_content,         \* get_product_sitemaps: the root document just read
    product_sitemaps,    \* main
    sm_idx,              \* main: position of the loop over product_sitemaps
    all_product_data,    \* main
    total_products,      \* main
    found_codes_set,     \* main
    missing_codes,       \* main
    filtered_data,       \* main
    products_to_process, \* main
    i,                   \* main: index of the per-product loop (0-based)
    enhanced_products,   \* main
    processed_count,     \* main
    successful_count,    \* main
    failed_count,        \* main
    error_products,      \* main
    attempt,             \* fetch_product_page: loop variable (0 outside a call)
    fetch_log,           \* fetch_product_page: outcome of each request of this call
    html_content,        \* main: value returned by fetch_product_page
    detailed_info,       \* main
    english_description, \* main
    spanish_description, \* main
    llm_log,             \* translate_to_spanish: payload of each request of this call
    llm_err,             \* translate_to_spanish: the exception its handlers hold (oe, e2, e)
    exc,                 \* the exception propagating in the loop body
    output_csv,          \* the file OUTPUT_CSV: rows written (header excluded)
    url_elem,            \* parse_product_sitemap: the <url> element of the loop
    product_code,        \* parse_product_sitemap
    product_name,        \* parse_product_sitemap
    sitemap_data         \* parse_product_sitemap: its list product_data

vars == << pc, exit_code, SITEMAP_URL, OPENAI_API_KEY, MAX_PRODUCTS, FORCE_MODE,
           input_csv, product_codes, xml_content, product_sitemaps, sm_idx,
           all_product_data, total_products, found_codes_set, missing_codes,
           filtered_data, products_to_process, i, enhanced_products,
           processed_count, successful_count, failed_count, error_products,
           attempt, fetch_log, html_content, detailed_info, english_description,
           spanish_description, llm_log, llm_err, exc, output_csv,
           url_elem, product_code, product_name, sitemap_data >>

----------------------------------------------------------------------------
(* String helpers (Python str operations on token sequences).              *)

\* s.startswith(p)
StartsWith(s, p) ==
    /\ Len(p) <= Len(s)
    /\ SubSeq(s, 1, Len(p)) = p

\* positions at which m occurs in s
Occurrences(s, m) ==
    { k \in 1..(Len(s) - Len(m) + 1) : SubSeq(s, k, k + Len(m) - 1) = m }

\* m in s
Contains(s, m) == Occurrences(s, m) # {}

Min(S) == CHOOSE x \in S : \A y \in S : x <= y

\* s.split(m)[0]
SplitHead(s, m) ==
    IF Contains(s, m) THEN SubSeq(s, 1, Min(Occurrences(s, m)) - 1) ELSE s

Max(S) == CHOOSE x \in S : \A y \in S : x >= y

\* s.split(m)[1], for an s that contains m
SplitSecond(s, m) ==
    LET p == Min(Occurrences(s, m))
    IN  SplitHead(SubSeq(s, p + Len(m), Len(s)), m)

\* s.split(m, 1)
SplitOnce(s, m) ==
    IF Contains(s, m)
    THEN LET p == Min(Occurrences(s, m))
         IN  << SubSeq(s, 1, p - 1), SubSeq(s, p + Len(m), Len(s)) >>
    ELSE << s >>

Whitespace == { " ", "\n" }

\* s.strip()
RECURSIVE LStrip(_)
LStrip(s) == IF s # << >> /\ Head(s) \in Whitespace THEN LStrip(Tail(s)) ELSE s

RECURSIVE RStrip(_)
RStrip(s) ==
    IF s # << >> /\ s[Len(s)] \in Whitespace THEN RStrip(SubSeq(s, 1, Len(s) - 1)) ELSE s

Strip(s) == RStrip(LStrip(s))

\* str.lower() of a token
Lower(t) ==
    CASE t = "SKU" -> "sku"
      [] t = "UPC" -> "upc"
      [] t = "Product Code" -> "product code"
      [] t = "Rate limit" -> "rate limit"
      [] t = "Pliers" -> "pliers"
      [] t = "Usage" -> "usage"
      [] t = "Weight" -> "weight"
      [] t = "Length" -> "length"
      [] t = "Colour" -> "colour"
      [] OTHER -> t

LowerSeq(s) == [ k \in 1..Len(s) |-> Lower(s[k]) ]

\* the elements of a sequence
Range(s) == { s[k] : k \in 1..Len(s) }

----------------------------------------------------------------------------
(* Bounds and the inputs the environment can supply.                       *)

MaxSitemapElems == 2     \* <sitemap> elements in a root document
MaxDiscovered == 3       \* records gathered from the product sitemaps
MaxCeiling == 2          \* largest MAX_PRODUCTS tried

Marker == << "sitemap", "_products" >>            \* 'sitemap_products'

RootIndexUrl == << "https://", "host", "/", "sitemap", ".xml" >>
RootProductUrl == << "https://", "host", "/", "sitemap", "_products", "_1.xml" >>

\* values of the environment variable SITEMAP_URL: unset, without scheme,
\* a sitemap index, a product sitemap
SitemapUrls ==
    { << >>, << "host", "/", "sitemap", ".xml" >>, RootIndexUrl, RootProductUrl }

LocProducts1 == << "https://", "host", "/", "sitemap", "_products", "_1.xml" >>
LocProducts2 == << "https://", "host", "/", "sitemap", "_products", "_2.xml" >>
LocPages == << "https://", "host", "/", "sitemap", "_pages", ".xml" >>

\* a <sitemap> element is the sequence of the texts of its <loc> children
SitemapElems == { << >>, << LocProducts1 >>, << LocProducts2 >>, << LocPages >> }

RECURSIVE SeqsUpTo(_, _)
SeqsUpTo(S, n) ==
    IF n = 0 THEN { << >> }
    ELSE LET shorter == SeqsUpTo(S, n - 1)
         IN  shorter \cup { Append(q, x) : q \in shorter, x \in S }

\* root documents: the <sitemap> elements in document order
RootDocs == SeqsUpTo(SitemapElems, MaxSitemapElems)

Rec(code, name, image, url) ==
    [ code |-> code, name |-> name, image_url |-> image, product_url |-> url ]

ProductA ==
    Rec(<< "A" >>, << "Long", " ", "Nose", " ", "Pliers" >>, << "a.jpg" >>,
        << "https://", "host", "/", "products", "/", "pliers-a" >>)
ProductB ==
    Rec(<< "B" >>, << "Bit", " ", "Set" >>, << >>,
        << "https://", "host", "/", "products", "/", "bits-b" >>)
ProductC ==
    Rec(<< "C" >>, << "Unknown Product Name" >>, << "c.jpg" >>,
        << "https://", "host", "/", "products", "/", "key", "-", "C" >>)

----------------------------------------------------------------------------
(* parse_product_sitemap.                                                  *)

\* A <url> element is what lines 531-547 read of it: the text of its <loc>,
\* of its first <image:loc> (<< >>: no such element), of its <image:title>
\* and of its first <image:caption> (<< >>: none, or without text).
UrlElem(loc, image_loc, title, caption) ==
    [ loc |-> loc, image_loc |-> image_loc, title |-> title, caption |-> caption ]

\* line 547: ''.join(url_elem.itertext()), the texts in document order with
\* the line breaks between the elements
text_content(e) ==
    e.loc \o << "\n" >> \o e.image_loc \o << "\n" >> \o e.title \o << "\n" >>
        \o e.caption

Wiha == << "Wiha " >>

\* the tokens that are runs of decimal digits; the product codes "A", "B",
\* "C" stand for such runs
DigitRuns == { "A", "B", "C", "7" }

\* product_code and product_name before method 1 (lines 550-551)
NoneFound == [ code |-> << >>, name |-> << >> ]

\* lines 557-563 and 567-573: the code and the name that follow 'Wiha '
WihaSplit(text, found) ==
    LET code_and_rest == SplitOnce(Strip(SplitSecond(text, Wiha)), << " " >>)
    IN  [ code |-> Strip(code_and_rest[1]),
          name |-> IF Len(code_and_rest) > 1 THEN Strip(code_and_rest[2])
                   ELSE found.name ]

\* lines 555-563
method1(e, found) ==
    IF e.caption # << >> /\ Contains(e.caption, Wiha)
    THEN WihaSplit(e.caption, found) ELSE found

\* a method 2 that does not look at the code found so far
method2Overrides(e, found) ==
    IF Contains(text_content(e), Wiha)
    THEN WihaSplit(text_content(e), found) ELSE found

\* a method 2 that keeps the name it reads and no code
method2NameOnly(e, found) ==
    IF found.code = << >> /\ Contains(text_content(e), Wiha)
    THEN [ code |-> << >>, name |-> WihaSplit(text_content(e), found).name ]
    ELSE found

\* lines 565-573
method2(e, found) ==
    IF found.code = << >> /\ Contains(text_content(e), Wiha)
    THEN WihaSplit(text_content(e), found) ELSE found

\* product_url.rstrip('/')
RECURSIVE RStripSlash(_)
RStripSlash(s) ==
    IF s # << >> /\ s[Len(s)] = "/" THEN RStripSlash(SubSeq(s, 1, Len(s) - 1)) ELSE s

\* line 578-580: product_url.rstrip('/').split('/')[-1]
LastPart(product_url) ==
    LET u == RStripSlash(product_url)
        slashes == { k \in 1..Len(u) : u[k] = "/" }
    IN  IF slashes = {} THEN u ELSE SubSeq(u, Max(slashes) + 1, Len(u))

\* line 582: re.findall(r'\d+$', last_part)
TrailingDigits(last_part) ==
    IF last_part # << >> /\ last_part[Len(last_part)] \in DigitRuns
    THEN << last_part[Len(last_part)] >> ELSE << >>

\* line 587: re.findall(r'-(\d+)(?:-|$)', last_part), the first match
HyphenDigits(last_part) ==
    LET at == { k \in 1..(Len(last_part) - 1) :
                  /\ last_part[k] = "-"
                  /\ last_part[k + 1] \in DigitRuns
                  /\ (k + 2 > Len(last_part) \/ last_part[k + 2] = "-") }
    IN  IF at = {} THEN << >> ELSE << last_part[Min(at) + 1] >>

\* lines 575-589
method3(e, found) ==
    IF found.code = << >>
    THEN LET last_part == LastPart(e.loc)
         IN  IF TrailingDigits(last_part) # << >>
             THEN [ found EXCEPT !.code = TrailingDigits(last_part) ]
             ELSE IF HyphenDigits(last_part) # << >>
             THEN [ found EXCEPT !.code = HyphenDigits(last_part) ]
             ELSE found
    ELSE found

\* line 594: re.findall(r'[-(](\d+)[)-]', product_name), the first match
EnclosedDigits(name) ==
    LET at == { k \in 1..(Len(name) - 2) :
                  /\ name[k] \in { "-", "(" }
                  /\ name[k + 1] \in DigitRuns
                  /\ name[k + 2] \in { ")", "-" } }
    IN  IF at = {} THEN << >> ELSE << name[Min(at) + 1] >>

\* the guard of line 592
Method4Applies(found) == found.code = << >> /\ found.name # << >>

\* lines 591-596
method4(e, found) ==
    IF Method4Applies(found) /\ EnclosedDigits(found.name) # << >>
    THEN [ found EXCEPT !.code = EnclosedDigits(found.name) ]
    ELSE found

\* line 532
IsProductUrl(e) == Contains(e.loc, << "/", "products", "/" >>)

\* lines 599-609: the record appended for a <url> element, if any
ProductRecord(e, found) ==
    IF found.code # << >>
    THEN << Rec(found.code,
                IF found.name # << >> THEN found.name
                ELSE << "Unknown Product Name" >>,
                e.image_loc, e.loc) >>
    ELSE << >>

\* lines 530-609, one iteration
ParseUrlElem(e) ==
    IF IsProductUrl(e)
    THEN ProductRecord(e, method4(e, method3(e, method2(e, method1(e, NoneFound)))))
    ELSE << >>

\* lines 517-611
RECURSIVE parse_product_sitemap(_)
parse_product_sitemap(doc) ==
    IF doc = << >> THEN << >>
    ELSE ParseUrlElem(Head(doc)) \o parse_product_sitemap(Tail(doc))

\* the <url> elements of the site's product sitemaps
ElemA ==
    UrlElem(ProductA.product_url, << "a.jpg" >>, << >>,
            << "Wiha ", "A", " ", "Long", " ", "Nose", " ", "Pliers" >>)
ElemB ==
    UrlElem(ProductB.product_url, << >>, << "Wiha ", " ", "B", " ", "Bit", " ", "Set" >>,
            << >>)
ElemC == UrlElem(ProductC.product_url, << "c.jpg" >>, << >>, << >>)
ElemNoCode ==
    UrlElem(<< "https://", "host", "/", "products", "/", "gift-card" >>, << >>,
            << >>, << "Gift", " ", "card" >>)
ElemPage ==
    UrlElem(<< "https://", "host", "/", "pages", "/", "about" >>, << >>, << >>, << >>)

\* the documents that fetch_sitemap can return for a product sitemap URL
SitemapDocs(url) ==
    IF url = LocProducts2 THEN { << ElemB >> }
    ELSE { << ElemPage, ElemA, ElemNoCode, ElemC >>, << >> }

\* what parse_product_sitemap can return for the document at a product
\* sitemap URL of the site
ProductSitemapData(url) == { parse_product_sitemap(doc) : doc \in SitemapDocs(url) }

\* rows of INPUT_CSV as csv.reader yields them: a row is a sequence of cells
Row(cell) == << cell >>
InputFiles ==
    { [ exists |-> FALSE, rows |-> << >> ],
      [ exists |-> TRUE,  rows |-> << Row(<< "#", "codes" >>), << >> >> ],
      [ exists |-> TRUE,  rows |-> << Row(<< "A" >>), Row(<< "B" >>), Row(<< "C" >>) >> ],
      [ exists |-> TRUE,
        rows |-> << Row(<< " ", "B" >>), << >>, Row(<< " " >>), Row(<< "B", " " >>) >> ],
      [ exists |-> TRUE,  rows |-> << Row(<< "#", "A" >>), Row(<< "C" >>), Row(<< "A" >>) >> ] }

----------------------------------------------------------------------------
(* read_product_codes_csv, get_product_sitemaps and the code filter.       *)

\* lines 653-662: empty rows and rows whose first cell starts with '#' are
\* skipped; the first cell of every other row is stripped and kept
RECURSIVE read_product_codes_csv(_)
read_product_codes_csv(rows) ==
    IF rows = << >> THEN << >>
    ELSE LET row == Head(rows)
             rest == read_product_codes_csv(Tail(rows))
         IN  IF row = << >> \/ StartsWith(row[1], << "#" >>)
             THEN rest
             ELSE << Strip(row[1]) >> \o rest

\* a reader that does not look for 'sitemap_products'
RECURSIVE EverySitemapLocation(_)
EverySitemapLocation(doc) ==
    IF doc = << >> THEN << >>
    ELSE LET elem == Head(doc)
             rest == EverySitemapLocation(Tail(doc))
         IN  IF elem # << >> THEN << elem[1] >> \o rest ELSE rest

\* lines 627-630: the first <loc> of every <sitemap> element, kept when its
\* text contains 'sitemap_products'
RECURSIVE get_product_sitemaps(_)
get_product_sitemaps(doc) ==
    IF doc = << >> THEN << >>
    ELSE LET elem == Head(doc)
             rest == get_product_sitemaps(Tail(doc))
         IN  IF elem # << >> /\ Contains(elem[1], Marker)
             THEN << elem[1] >> \o rest
             ELSE rest

\* a filter that lets every record through
KeepEveryRecord(data, codes) == data

\* lines 803-807: the records whose code is in product_codes, in order
RECURSIVE FilterByCodes(_, _)
FilterByCodes(data, codes) ==
    IF data = << >> THEN << >>
    ELSE IF Head(data).code \in Range(codes)
         THEN << Head(data) >> \o FilterByCodes(Tail(data), codes)
         ELSE FilterByCodes(Tail(data), codes)

\* lines 801-807: the codes added to found_codes_set
FoundCodes(data, codes) == { r.code : r \in Range(FilterByCodes(data, codes)) }

\* line 821
BaseUrl(url) == SplitHead(url, << "/", "sitemap" >>)

\* lines 824-829
DummyProduct(code, base_url) ==
    Rec(code, << "Product", " " >> \o code, << >>,
        base_url \o << "/", "products", "/" >> \o code)

\* the orders in which a Python set of the given codes can be iterated
Orders(S) ==
    { q \in SeqsUpTo(S, Cardinality(S)) : Len(q) = Cardinality(S) /\ Range(q) = S }

\* lines 823-830: one stub per element of `order`
RECURSIVE Stubs(_, _)
Stubs(order, base_url) ==
    IF order = << >> THEN << >>
    ELSE << DummyProduct(Head(order), base_url) >> \o Stubs(Tail(order), base_url)

\* a slice that is one entry too long
ApplyLimitOneMore(data, max) ==
    IF max > 0 /\ Len(data) > max THEN SubSeq(data, 1, max + 1) ELSE data

\* lines 844-846
ApplyLimit(data, max) ==
    IF max > 0 /\ Len(data) > max THEN SubSeq(data, 1, max) ELSE data

----------------------------------------------------------------------------
(* Product pages and parse_product_page.                                   *)

\* a JSON value that is a number, not a string
IntVal == << "<int>" >>

EmptyInfo ==
    [ description |-> << >>, specifications |-> << >>,
      items_in_set |-> << >>, applications |-> << >> ]

NoJsonLd == [ kind |-> "none", description |-> << >>, props |-> << >> ]

\* A page is what the selectors of parse_product_page find in it:
\*   body      "html" for a document, "" for an empty body, "None" for None
\*   descSel   text of the first matching description selector (<< >>: none)
\*   tables    the two-cell rows of the tables of the first matching
\*             specification selector, as <<key, value>> pairs
\*   jsonld    the first <script type="application/ld+json">:
\*             kind "none" (no block), "nostring" (block without a single
\*             string child), "malformed", "dict" or "propsnum" (a dict whose
\*             additionalProperty is a number); description << >> when absent
\*   dl        the dt/dd pairs of the definition lists
\*   setItems  the item names of the first matching set container
\*   sections  the texts of the generic product-information sections
Page(descSel, tables, jsonld, dl, setItems, sections) ==
    [ body |-> "html", descSel |-> descSel, tables |-> tables, jsonld |-> jsonld, dl |-> dl,
      setItems |-> setItems, sections |-> sections ]

PagePlain ==
    Page(<< "Precision pliers ", "ideal for", " electronics" >>,
         << << << "Weight" >>, << "1.5 lb" >> >>, << << "SKU" >>, << "A" >> >> >>,
         NoJsonLd, << >>, << >>, << >>)
PageBare ==
    Page(<< >>, << >>, NoJsonLd, << >>, << << "Bit PH1" >>, << "Bit PH2" >> >>,
         << << "Bits for every job" >> >>)
PageJsonLd ==
    Page(<< >>, << << << "Usage" >>, << "indoor" >> >> >>,
         [ kind |-> "dict", description |-> << "From JSON-LD" >>,
           props |-> << << << "Length" >>, << "160 mm" >> >> >> ],
         << << << "Colour" >>, << "red" >> >> >>, << >>, << >>)
PageMalformedJson ==
    Page(<< >>, << >>, [ kind |-> "malformed", description |-> << >>, props |-> << >> ],
         << << << "Colour" >>, << "red" >> >> >>, << >>, << >>)
PageNoStringJson ==
    Page(<< "A tool" >>, << >>,
         [ kind |-> "nostring", description |-> << >>, props |-> << >> ],
         << >>, << >>, << >>)
PageNumberDescription ==
    Page(<< >>, << >>, [ kind |-> "dict", description |-> IntVal, props |-> << >> ],
         << >>, << >>, << >>)

\* None, and the empty string
NonePage == [ Page(<< >>, << >>, NoJsonLd, << >>, << >>, << >>) EXCEPT !.body = "None" ]
EmptyPage == [ Page(<< >>, << >>, NoJsonLd, << >>, << >>, << >>) EXCEPT !.body = "" ]

\* "not html_content"
Falsy(html) == html.body \in { "None", "" }

\* the documents the site can answer with for a product URL
PagesAt(url) ==
    IF url = ProductA.product_url THEN { PagePlain, PageNoStringJson }
    ELSE IF url = ProductB.product_url THEN { PageJsonLd }
    ELSE IF url = ProductC.product_url THEN { PageNumberDescription }
    ELSE { PageMalformedJson, EmptyPage }

\* result["specifications"][key] = value on an insertion-ordered dict
RECURSIVE DictSet(_, _, _)
DictSet(d, key, value) ==
    IF d = << >> THEN << << key, value >> >>
    ELSE IF Head(d)[1] = key THEN << << key, value >> >> \o Tail(d)
    ELSE << Head(d) >> \o DictSet(Tail(d), key, value)

RECURSIVE DictUpdate(_, _)
DictUpdate(d, pairs) ==
    IF pairs = << >> THEN d
    ELSE DictUpdate(DictSet(d, Head(pairs)[1], Head(pairs)[2]), Tail(pairs))

DescriptionKeywords ==
    { "ideal for", "perfect for", "used for", "designed for", "suitable for",
      "applications" }
SpecKeywords == { "application", "use", "usage", "suitable" }

\* lines 183-185: "key: value" for every row whose key names an application
RECURSIVE SpecApplications(_)
SpecApplications(pairs) ==
    IF pairs = << >> THEN << >>
    ELSE LET p == Head(pairs)
         IN  (IF Range(LowerSeq(p[1])) \cap SpecKeywords # {}
              THEN << p[1] \o << ": " >> \o p[2] >> ELSE << >>)
             \o SpecApplications(Tail(pairs))

\* lines 244-247: the first non-empty section text
RECURSIVE FirstNonEmpty(_)
FirstNonEmpty(texts) ==
    IF texts = << >> THEN << >>
    ELSE IF Head(texts) # << >> THEN Head(texts)
    ELSE FirstNonEmpty(Tail(texts))

\* the sources of specifications as a strict fallback chain: tables, then
\* definition lists, then JSON-LD
StrictFallbackChain(html) ==
    IF Falsy(html)
    THEN [ raised |-> FALSE, detail |-> << >>, info |-> EmptyInfo ]
    ELSE
    LET desc1 == html.descSel
        apps1 == IF Range(desc1) \cap DescriptionKeywords # {}
                 THEN << desc1 >> ELSE << >>
        specs2 == DictUpdate(<< >>, html.tables)
        apps2 == apps1 \o SpecApplications(html.tables)
        specs3 == IF specs2 = << >> THEN DictUpdate(<< >>, html.dl) ELSE specs2
        j == html.jsonld
        jsonRaises == j.kind \in { "nostring", "propsnum" }
        desc3 == IF j.kind \in { "dict", "propsnum" } /\ j.description # << >>
                    /\ desc1 = << >>
                 THEN j.description ELSE desc1
        specs4 == IF j.kind = "dict" /\ specs3 = << >>
                  THEN DictUpdate(<< >>, j.props) ELSE specs3
        desc6 == IF desc3 = << >> /\ specs4 = << >>
                 THEN FirstNonEmpty(html.sections) ELSE desc3
    IN  IF jsonRaises
        THEN [ raised |-> TRUE, detail |-> << "TypeError in JSON-LD" >>,
               info |-> EmptyInfo ]
        ELSE [ raised |-> FALSE, detail |-> << >>,
               info |-> [ description |-> desc6, specifications |-> specs4,
                          items_in_set |-> html.setItems, applications |-> apps2 ] ]

\* lines 107-254.  Returns [raised, detail, info]: raised when an exception
\* leaves the function (json.loads(None) and a non-iterable
\* additionalProperty raise TypeError, which line 206 does not catch).
parse_product_page(html) ==
    IF Falsy(html)
    THEN [ raised |-> FALSE, detail |-> << >>, info |-> EmptyInfo ]
    ELSE
    LET desc1 == html.descSel
        apps1 == IF Range(desc1) \cap DescriptionKeywords # {}
                 THEN << desc1 >> ELSE << >>
        specs2 == DictUpdate(<< >>, html.tables)
        apps2 == apps1 \o SpecApplications(html.tables)
        j == html.jsonld
        jsonRaises == j.kind \in { "nostring", "propsnum" }
        desc3 == IF j.kind \in { "dict", "propsnum" } /\ j.description # << >>
                    /\ desc1 = << >>
                 THEN j.description ELSE desc1
        specs3 == IF j.kind = "dict" THEN DictUpdate(specs2, j.props) ELSE specs2
        specs4 == IF specs3 = << >> THEN DictUpdate(<< >>, html.dl) ELSE specs3
        desc6 == IF desc3 = << >> /\ specs4 = << >>
                 THEN FirstNonEmpty(html.sections) ELSE desc3
    IN  IF jsonRaises
        THEN [ raised |-> TRUE, detail |-> << "TypeError in JSON-LD" >>,
               info |-> EmptyInfo ]
        ELSE [ raised |-> FALSE, detail |-> << >>,
               info |-> [ description |-> desc6, specifications |-> specs4,
                          items_in_set |-> html.setItems, applications |-> apps2 ] ]

----------------------------------------------------------------------------
(* create_product_description.                                             *)

\* sep.join(parts)
RECURSIVE Join(_, _)
Join(parts, sep) ==
    IF parts = << >> THEN << >>
    ELSE IF Len(parts) = 1 THEN Head(parts)
    ELSE Head(parts) \o sep \o Join(Tail(parts), sep)

NL == << "\n" >>

\* s.replace(old, new): the non-overlapping occurrences, left to right
RECURSIVE Replace(_, _, _)
Replace(s, old, new) ==
    IF Len(s) < Len(old) THEN s
    ELSE IF StartsWith(s, old)
         THEN new \o Replace(SubSeq(s, Len(old) + 1, Len(s)), old, new)
         ELSE << Head(s) >> \o Replace(Tail(s), old, new)

\* lines 280-283
RECURSIVE FeatureLines(_)
FeatureLines(specs) ==
    IF specs = << >> THEN << >>
    ELSE LET key == Head(specs)[1]
             value == Head(specs)[2]
         IN  (IF LowerSeq(key) \notin { << "product code" >>, << "sku" >>, << "upc" >> }
              THEN << << "- " >> \o key \o << ": " >> \o value >> ELSE << >>)
             \o FeatureLines(Tail(specs))

\* "- item" for every element
BulletLines(items) == [ k \in 1..Len(items) |-> << "- " >> \o items[k] ]

\* lines 257-336.  Returns [raised, detail, text]; `intro += description`
\* raises TypeError when the description taken from JSON-LD is not a string.
create_product_description(product_data, info) ==
    LET product_title ==
            << "Wiha " >> \o product_data.code \o << " - " >> \o product_data.name
        intro ==
            << "The Wiha " >> \o product_data.code \o << " " >> \o product_data.name
            \o << " is a premium quality tool. " >>
            \o (IF info.description # << >> THEN info.description
                ELSE << "Crafted with Wiha's renowned German engineering." >>)
        features0 == << << "Features:" >> >> \o FeatureLines(info.specifications)
        features ==
            IF Len(features0) <= 1
            THEN features0 \o << << "- Premium German engineering and construction" >>,
                                 << "- Ergonomic design for comfortable use" >>,
                                 << "- Made from high-quality materials for durability" >>,
                                 << "- Part of Wiha's professional-grade tool lineup" >> >>
            ELSE features0
        applications ==
            IF info.applications # << >>
            THEN << << "\n", "Applications:" >> >> \o BulletLines(info.applications)
            ELSE << >>
        set_items ==
            IF info.items_in_set # << >>
            THEN << << "\n", "This set includes:" >> >> \o BulletLines(info.items_in_set)
            ELSE << >>
        additional_info ==
            << << "\n", "Additional Information:" >>, << "- Brand: Wiha" >>,
               << "- Model: " >> \o product_data.code, << "- Made in Germany" >>,
               << "- Professional-grade quality" >> >>
        closing ==
            << "\n", "With Wiha's commitment to excellence and innovation, the " >>
            \o product_data.name \o << " delivers. Elevate your work." >>
        sections ==
            << product_title, << >>, intro, << >>, Join(features, NL),
               Join(applications, NL), Join(set_items, NL),
               Join(additional_info, NL), << >>, closing >>
    IN  IF info.description = IntVal
        THEN [ raised |-> TRUE,
               detail |-> << "can only concatenate str (not \"int\") to str" >>,
               text |-> << >> ]
        ELSE [ raised |-> FALSE, detail |-> << >>,
               text |-> Replace(Join(sections, NL), << "\n", "\n", "\n" >>,
                                << "\n", "\n" >>) ]

----------------------------------------------------------------------------
(* translate_to_spanish: the pure parts.                                   *)

Sentinel == << "NOT FOUND" >>

\* line 349
SkipMessage == << "API key not provided. Translation skipped." >>

PlierTerms == { "plier", "pliers", "alicate", "pinza" }

\* lines 366-367
is_plier(product_data) == Range(LowerSeq(product_data.name)) \cap PlierTerms # {}

\* lines 353-406: the user prompt
Prompt(text, product_data, info) ==
    [ product_json |-> [ code |-> product_data.code, name |-> product_data.name,
                         raw_description |-> info.description,
                         specifications |-> info.specifications,
                         items_in_set |-> info.items_in_set ],
      english |-> text,
      additional_instructions |-> is_plier(product_data),
      title |-> product_data.code \o << " " >> \o product_data.name ]

SystemMessage == "You are a Spanish-speaking product content writer"

\* lines 415-423: the arguments of client.chat.completions.create
FirstRequest(prompt) ==
    [ model |-> "gpt-4o", system |-> SystemMessage, user |-> prompt,
      temperature |-> "0.5", max_tokens |-> 1500 ]

\* a retry that asks a cheaper model
RetryRequestOtherModel(prompt) ==
    [ model |-> "gpt-4o-mini", system |-> SystemMessage, user |-> prompt,
      temperature |-> "0.5", max_tokens |-> 1500 ]

\* lines 472-480
RetryRequest(prompt) ==
    [ model |-> "gpt-4o", system |-> SystemMessage, user |-> prompt,
      temperature |-> "0.5", max_tokens |-> 1500 ]

\* re.sub(r'#{1,6}\s+', '', s): the token "## " is a run of '#' and the
\* whitespace after it
RECURSIVE StripHeaders(_)
StripHeaders(s) ==
    IF s = << >> THEN << >>
    ELSE IF Head(s) = "## " THEN StripHeaders(Tail(s))
    ELSE << Head(s) >> \o StripHeaders(Tail(s))

\* the closing positions of mark(.+?)close starting at s[1] = mark: at least
\* one token in between and no newline
Closers(s, close) ==
    { q \in 3..Len(s) : /\ s[q] = close
                        /\ \A k \in 2..(q - 1) : s[k] # "\n" }

\* re.sub(mark(.+?)mark, r'\1', s)
RECURSIVE StripPair(_, _)
StripPair(s, mark) ==
    IF s = << >> THEN << >>
    ELSE IF Head(s) = mark /\ Closers(s, mark) # {}
         THEN LET q == Min(Closers(s, mark))
              IN  SubSeq(s, 2, q - 1) \o StripPair(SubSeq(s, q + 1, Len(s)), mark)
         ELSE << Head(s) >> \o StripPair(Tail(s), mark)

\* re.sub(r'\[(.+?)\]\(.+?\)', r'\1', s), "](" being one token
RECURSIVE StripLinks(_)
StripLinks(s) ==
    IF s = << >> THEN << >>
    ELSE LET mids == { q \in Closers(s, "](") :
                         Closers(SubSeq(s, q, Len(s)), ")") # {} }
         IN  IF Head(s) = "[" /\ mids # {}
             THEN LET q == Min(mids)
                      r == q - 1 + Min(Closers(SubSeq(s, q, Len(s)), ")"))
                  IN  SubSeq(s, 2, q - 1) \o StripLinks(SubSeq(s, r + 1, Len(s)))
             ELSE << Head(s) >> \o StripLinks(Tail(s))

\* lines 431-436
PlainText(translated_text) ==
    StripLinks(StripPair(StripPair(StripPair(StripPair(
        StripHeaders(translated_text), "**"), "*"), "__"), "_"))

FabricationText ==
    << "\n", "-- FABRICADO EN ALEMANIA (no es producto chino) --", "\n", "\n",
       "Somos PROFITOOLS, el unico representante oficial de Wiha en Argentina.",
       "\n", "\n" >>
ProfitoolsText ==
    << "\n", "Somos PROFITOOLS, el unico representante oficial de Wiha en Argentina.",
       "\n", "\n" >>

\* lines 443-449 and 455-461
InsertAfterFirstLine(plain_text, boilerplate) ==
    IF Contains(plain_text, NL)
    THEN LET first_line_end == Min(Occurrences(plain_text, NL))
         IN  SubSeq(plain_text, 1, first_line_end) \o boilerplate
             \o SubSeq(plain_text, first_line_end + 1, Len(plain_text))
    ELSE plain_text \o boilerplate

\* lines 426-463 (and 481-507): the text returned for a response content
ProcessResponse(content, product_data) ==
    InsertAfterFirstLine(PlainText(Strip(content)),
        IF is_plier(product_data) THEN ProfitoolsText ELSE FabricationText)

\* line 468
IsRateLimit(msg) == Contains(LowerSeq(msg), << "rate limit" >>)

\* what the generation service can answer to one request for a product:
\*   "ok" with the content of the first choice, "nocontent" (content is None,
\*   so .strip() raises AttributeError), "error" (an openai.OpenAIError)
LlmOutcomes(product_data) ==
    { [ kind |-> "ok",
        text |-> IF is_plier(product_data)
                 THEN << "Alicate de punta", "\n", "## ", "Usos", "\n", "**", "precisos", "**" >>
                 ELSE << " ", "Juego de puntas", " " >> ],
      [ kind |-> "nocontent", text |-> << "'NoneType' object has no attribute 'strip'" >> ],
      [ kind |-> "error", text |-> << "Error code: 429 - ", "Rate limit", " reached" >> ],
      [ kind |-> "error", text |-> << "Error code: 500 - ", "server error" >> ] }

\* the answers tried for the request repeated after the cooldown
RetryOutcomes(product_data) ==
    { o \in LlmOutcomes(product_data) : o.kind = "ok" \/ IsRateLimit(o.text) }

----------------------------------------------------------------------------
(* The script as a state machine.                                          *)

max_retries == 3         \* line 53

Init ==
    /\ pc = "import"
    /\ exit_code = -1
    /\ SITEMAP_URL \in SitemapUrls
    /\ OPENAI_API_KEY \in BOOLEAN
    /\ MAX_PRODUCTS \in 0..MaxCeiling
    /\ FORCE_MODE \in BOOLEAN
    /\ input_csv \in InputFiles
    /\ product_codes = << >>
    /\ xml_content = << >>
    /\ product_sitemaps = << >>
    /\ sm_idx = 0
    /\ all_product_data = << >>
    /\ total_products = 0
    /\ found_codes_set = {}
    /\ missing_codes = {}
    /\ filtered_data = << >>
    /\ products_to_process = << >>
    /\ i = 0
    /\ enhanced_products = << >>
    /\ processed_count = 0
    /\ successful_count = 0
    /\ failed_count = 0
    /\ error_products = << >>
    /\ attempt = 0
    /\ fetch_log = << >>
    /\ html_content = NonePage
    /\ detailed_info = EmptyInfo
    /\ english_description = << >>
    /\ spanish_description = << >>
    /\ llm_log = << >>
    /\ llm_err = << >>
    /\ exc = << >>
    /\ output_csv = << >>
    /\ url_elem = ElemPage
    /\ product_code = << >>
    /\ product_name = << >>
    /\ sitemap_data = << >>

configVars == << SITEMAP_URL, OPENAI_API_KEY, MAX_PRODUCTS, FORCE_MODE >>
discoveryVars ==
    << product_codes, xml_content, product_sitemaps, sm_idx, all_product_data,
       total_products >>
filterVars == << found_codes_set, missing_codes, filtered_data, products_to_process >>
tallyVars ==
    << enhanced_products, processed_count, successful_count, failed_count,
       error_products >>
fetchVars == << attempt, fetch_log, html_content >>
stageVars == << detailed_info, english_description, spanish_description >>
llmVars == << llm_log, llm_err >>
sitemapVars == << url_elem, product_code, product_name, sitemap_data >>

\* sys.exit(status)
Exit(status) ==
    /\ pc' = "exit"
    /\ exit_code' = status

\* lines 743-745: urlparse finds a scheme and a netloc
ValidUrl(url) ==
    /\ Len(url) >= 2
    /\ url[1] \in { "https://", "http://" }
    /\ url[2] \notin { "/", "" }

\* lines 35-37
ModuleLoad ==
    /\ pc = "import"
    /\ IF SITEMAP_URL = << >>
       THEN Exit(1)
       ELSE pc' = "validate" /\ UNCHANGED exit_code
    /\ UNCHANGED << sitemapVars, configVars, input_csv, discoveryVars, filterVars, i, tallyVars,
                    fetchVars, stageVars, llmVars, exc, output_csv >>

\* lines 741-748
ValidateUrl ==
    /\ pc = "validate"
    /\ IF ValidUrl(SITEMAP_URL)
       THEN pc' = "input" /\ UNCHANGED exit_code
       ELSE Exit(1)
    /\ UNCHANGED << sitemapVars, configVars, input_csv, discoveryVars, filterVars, i, tallyVars,
                    fetchVars, stageVars, llmVars, exc, output_csv >>

\* lines 665-668
TemplateFile ==
    [ exists |-> TRUE,
      rows |-> << Row(<< "ProductCode" >>),
                  Row(<< "#", " Add your product codes below, one per line" >>) >> ]

\* lines 750-755
CreateTemplate ==
    /\ pc = "input"
    /\ ~input_csv.exists
    /\ input_csv' = TemplateFile
    /\ Exit(0)
    /\ UNCHANGED << sitemapVars, configVars, discoveryVars, filterVars, i, tallyVars,
                    fetchVars, stageVars, llmVars, exc, output_csv >>

\* lines 757-771
ReadCodes ==
    /\ pc = "input"
    /\ input_csv.exists
    /\ product_codes' = read_product_codes_csv(input_csv.rows)
    /\ pc' = IF product_codes' # << >> THEN "sanity" ELSE "discover"
    /\ UNCHANGED << sitemapVars, exit_code, configVars, input_csv, xml_content, product_sitemaps,
                    sm_idx, all_product_data, total_products, filterVars, i,
                    tallyVars, fetchVars, stageVars, llmVars, exc, output_csv >>

\* lines 694-737: check_sitemap_products only prints; the SystemExit that
\* fetch_sitemap raises on a failed request is no Exception, so line 736 does
\* not catch it
SanityCheck ==
    /\ pc = "sanity"
    /\ \/ pc' = "discover" /\ UNCHANGED exit_code
       \/ Exit(1)
    /\ UNCHANGED << sitemapVars, configVars, input_csv, discoveryVars, filterVars, i, tallyVars,
                    fetchVars, stageVars, llmVars, exc, output_csv >>

\* lines 775-777
UseRootAsProductSitemap ==
    /\ pc = "discover"
    /\ Contains(SITEMAP_URL, Marker)
    /\ product_sitemaps' = << SITEMAP_URL >>
    /\ pc' = "found"
    /\ UNCHANGED << sitemapVars, exit_code, configVars, input_csv, product_codes, xml_content,
                    sm_idx, all_product_data, total_products, filterVars, i,
                    tallyVars, fetchVars, stageVars, llmVars, exc, output_csv >>

\* lines 778-780 and 614-632
ReadSitemapIndex ==
    /\ pc = "discover"
    /\ ~Contains(SITEMAP_URL, Marker)
    /\ \E doc \in RootDocs :
         /\ xml_content' = doc
         /\ product_sitemaps' = get_product_sitemaps(doc)
    /\ pc' = "found"
    /\ UNCHANGED << sitemapVars, exit_code, configVars, input_csv, product_codes,
                    sm_idx, all_product_data, total_products, filterVars, i,
                    tallyVars, fetchVars, stageVars, llmVars, exc, output_csv >>

\* lines 40-48: a failed request for a sitemap ends the process
FetchSitemapFails ==
    /\ \/ pc = "discover" /\ ~Contains(SITEMAP_URL, Marker)
       \/ pc = "sitemaps" /\ sm_idx <= Len(product_sitemaps)
    /\ Exit(1)
    /\ UNCHANGED << sitemapVars, configVars, input_csv, discoveryVars, filterVars, i, tallyVars,
                    fetchVars, stageVars, llmVars, exc, output_csv >>

\* lines 782-789
CheckFound ==
    /\ pc = "found"
    /\ xml_content' = << >>
    /\ IF product_sitemaps = << >>
       THEN Exit(1) /\ UNCHANGED sm_idx
       ELSE pc' = "sitemaps" /\ sm_idx' = 1 /\ UNCHANGED exit_code
    /\ UNCHANGED << sitemapVars, configVars, input_csv, product_codes, product_sitemaps,
                    all_product_data, total_products, filterVars, i,
                    tallyVars, fetchVars, stageVars, llmVars, exc, output_csv >>

\* lines 791-798
ProcessSitemap ==
    /\ pc = "sitemaps"
    /\ sm_idx <= Len(product_sitemaps)
    /\ \E product_data \in ProductSitemapData(product_sitemaps[sm_idx]) :
         /\ Len(all_product_data) + Len(product_data) <= MaxDiscovered
         /\ total_products' = total_products + Len(product_data)
         /\ all_product_data' = all_product_data \o product_data
    /\ sm_idx' = sm_idx + 1
    /\ UNCHANGED << sitemapVars, pc, exit_code, configVars, input_csv, product_codes, xml_content,
                    product_sitemaps, filterVars, i, tallyVars, fetchVars,
                    stageVars, llmVars, exc, output_csv >>

\* lines 800-841
FilterProducts ==
    /\ pc = "sitemaps"
    /\ sm_idx > Len(product_sitemaps)
    /\ IF product_codes # << >>
       THEN LET kept == FilterByCodes(all_product_data, product_codes)
                found == FoundCodes(all_product_data, product_codes)
                missing == Range(product_codes) \ found
            IN  /\ found_codes_set' = found
                /\ missing_codes' = missing
                /\ IF FORCE_MODE /\ missing # {}
                   THEN \E order \in Orders(missing) :
                          filtered_data' = kept \o Stubs(order, BaseUrl(SITEMAP_URL))
                   ELSE filtered_data' = kept
       ELSE /\ found_codes_set' = {}
            /\ filtered_data' = all_product_data
            /\ UNCHANGED missing_codes
    /\ pc' = "limit"
    /\ UNCHANGED << sitemapVars, exit_code, configVars, input_csv, discoveryVars,
                    products_to_process, i, tallyVars, fetchVars, stageVars,
                    llmVars, exc, output_csv >>

\* lines 843-850
LimitProducts ==
    /\ pc = "limit"
    /\ products_to_process' = ApplyLimit(filtered_data, MAX_PRODUCTS)
    /\ i' = 0
    /\ pc' = "loop"
    /\ UNCHANGED << sitemapVars, exit_code, configVars, input_csv, discoveryVars, found_codes_set,
                    missing_codes, filtered_data, tallyVars, fetchVars, stageVars,
                    llmVars, exc, output_csv >>

\* the product of the current iteration (enumerate index i)
product == products_to_process[i + 1]

\* product.copy() with the three derived fields
Enhanced(p, english, spanish, info) ==
    [ code |-> p.code, name |-> p.name, image_url |-> p.image_url,
      product_url |-> p.product_url, english_description |-> english,
      spanish_description |-> spanish, detailed_info |-> info ]

\* f"{product['code']} - {product['name']} ({why})"
ErrorEntry(p, why) == p.code \o << " - " >> \o p.name \o << " (" >> \o why \o << ")" >>

\* line 852: the next product, or the end of the loop
LoopHead ==
    /\ pc = "loop"
    /\ IF i < Len(products_to_process)
       THEN /\ pc' = "fetch"
            /\ attempt' = 1
            /\ fetch_log' = << >>
       ELSE /\ pc' = "write"
            /\ UNCHANGED << attempt, fetch_log >>
    /\ UNCHANGED << sitemapVars, exit_code, configVars, input_csv, discoveryVars, filterVars, i,
                    tallyVars, html_content, stageVars, llmVars, exc, output_csv >>

\* lines 62-75: a response that is neither a 404 nor an error status
FetchSucceeds ==
    /\ pc = "fetch"
    /\ \E page \in PagesAt(product.product_url) : html_content' = page
    /\ fetch_log' = Append(fetch_log, "200")
    /\ attempt' = 0
    /\ pc' = "fetched"
    /\ UNCHANGED << sitemapVars, exit_code, configVars, input_csv, discoveryVars, filterVars, i,
                    tallyVars, stageVars, llmVars, exc, output_csv >>

\* lines 65-67
FetchNotFound ==
    /\ pc = "fetch"
    /\ html_content' = NonePage
    /\ fetch_log' = Append(fetch_log, "404")
    /\ attempt' = 0
    /\ pc' = "fetched"
    /\ UNCHANGED << sitemapVars, exit_code, configVars, input_csv, discoveryVars, filterVars, i,
                    tallyVars, stageVars, llmVars, exc, output_csv >>

\* the requests.exceptions.RequestException kinds of lines 77, 86 and 95
RequestErrors == { "timeout", "connection", "http error" }

\* a retry test that lets a fourth attempt through
RetryOnceMore(n) ==
    IF n <= max_retries
    THEN /\ attempt' = n + 1
         /\ UNCHANGED << pc, html_content >>
    ELSE /\ html_content' = NonePage
         /\ pc' = "fetched"
         /\ attempt' = 0

\* what happens after a failed attempt: another attempt, or give up
RetryOrGiveUp(n) ==
    IF n < max_retries
    THEN /\ attempt' = n + 1
         /\ UNCHANGED << pc, html_content >>
    ELSE /\ html_content' = NonePage
         /\ pc' = "fetched"
         /\ attempt' = 0

\* lines 77-102
FetchFails ==
    /\ pc = "fetch"
    /\ \E err \in RequestErrors : fetch_log' = Append(fetch_log, err)
    /\ RetryOrGiveUp(attempt)
    /\ UNCHANGED << sitemapVars, exit_code, configVars, input_csv, discoveryVars, filterVars, i,
                    tallyVars, stageVars, llmVars, exc, output_csv >>

\* a fetch failure that skips the product
RecordFetchFailureSkips ==
    /\ pc = "fetched"
    /\ Falsy(html_content)
    /\ i' = i + 1
    /\ pc' = "loop"
    /\ fetch_log' = << >>
    /\ UNCHANGED << sitemapVars, exit_code, configVars, input_csv, discoveryVars, filterVars,
                    tallyVars, attempt, html_content, stageVars, llmVars, exc,
                    output_csv >>

RecordFetchFailureAborts ==
    /\ pc = "fetched"
    /\ Falsy(html_content)
    /\ Exit(1)
    /\ UNCHANGED << sitemapVars, configVars, input_csv, discoveryVars, filterVars, i, tallyVars,
                    fetchVars, stageVars, llmVars, exc, output_csv >>

\* lines 859-870
RecordFetchFailure ==
    /\ pc = "fetched"
    /\ Falsy(html_content)
    /\ enhanced_products' =
         Append(enhanced_products,
                Enhanced(product, Sentinel \o << " - Could not fetch product page" >>,
                         Sentinel \o << " - No se pudo obtener la pagina del producto" >>,
                         EmptyInfo))
    /\ processed_count' = processed_count + 1
    /\ failed_count' = failed_count + 1
    /\ error_products' = Append(error_products, ErrorEntry(product, << "fetch error" >>))
    /\ i' = i + 1
    /\ pc' = "loop"
    /\ fetch_log' = << >>
    /\ UNCHANGED << sitemapVars, exit_code, configVars, input_csv, discoveryVars, filterVars,
                    successful_count, attempt, html_content, stageVars, llmVars,
                    exc, output_csv >>

\* lines 872-873
ParsePage ==
    /\ pc = "fetched"
    /\ ~Falsy(html_content)
    /\ LET r == parse_product_page(html_content)
       IN  IF r.raised
           THEN pc' = "except" /\ exc' = r.detail /\ UNCHANGED detailed_info
           ELSE pc' = "compose" /\ detailed_info' = r.info /\ UNCHANGED exc
    /\ fetch_log' = << >>
    /\ UNCHANGED << sitemapVars, exit_code, configVars, input_csv, discoveryVars, filterVars, i,
                    tallyVars, attempt, html_content, english_description,
                    spanish_description, llmVars, output_csv >>

\* lines 875-876
ComposeDescription ==
    /\ pc = "compose"
    /\ LET r == create_product_description(product, detailed_info)
       IN  IF r.raised
           THEN pc' = "except" /\ exc' = r.detail /\ UNCHANGED english_description
           ELSE pc' = "translate" /\ english_description' = r.text /\ UNCHANGED exc
    /\ UNCHANGED << sitemapVars, exit_code, configVars, input_csv, discoveryVars, filterVars, i,
                    tallyVars, fetchVars, detailed_info, spanish_description,
                    llmVars, output_csv >>

\* translate_to_spanish returns `text` to line 880
Return(text) ==
    /\ spanish_description' = text
    /\ pc' = "classify"

\* a translate_to_spanish that goes on without credential
TranslateWithoutCredential ==
    /\ pc = "translate"
    /\ ~OPENAI_API_KEY
    /\ pc' = "llm1"
    /\ UNCHANGED << sitemapVars, exit_code, configVars, input_csv, discoveryVars, filterVars, i,
                    tallyVars, fetchVars, stageVars, llmVars, exc, output_csv >>

\* lines 348-349
TranslateSkipped ==
    /\ pc = "translate"
    /\ ~OPENAI_API_KEY
    /\ Return(SkipMessage)
    /\ UNCHANGED << sitemapVars, exit_code, configVars, input_csv, discoveryVars, filterVars, i,
                    tallyVars, fetchVars, detailed_info, english_description,
                    llmVars, exc, output_csv >>

\* lines 351-411: the prompt is built and the client created
TranslatePrepare ==
    /\ pc = "translate"
    /\ OPENAI_API_KEY
    /\ pc' = "llm1"
    /\ UNCHANGED << sitemapVars, exit_code, configVars, input_csv, discoveryVars, filterVars, i,
                    tallyVars, fetchVars, stageVars, llmVars, exc, output_csv >>

\* the prompt of the current call (line 377)
prompt == Prompt(english_description, product, detailed_info)

\* a handler that reports a service error without the reserved prefix
AfterFirstRequestPlainError(o) ==
    CASE o.kind = "ok" ->
           Return(ProcessResponse(o.text, product)) /\ UNCHANGED llm_err
      [] o.kind = "nocontent" ->
           Return(Sentinel \o << " - Error in translation process: " >> \o o.text)
           /\ llm_err' = o.text
      [] o.kind = "error" /\ IsRateLimit(o.text) ->
           pc' = "cooldown" /\ llm_err' = o.text /\ UNCHANGED spanish_description
      [] OTHER ->
           Return(<< "OpenAI API Error: " >> \o o.text)
           /\ llm_err' = o.text

\* lines 465-470, 510 and 512-514: what the first request's outcome leads to
AfterFirstRequest(o) ==
    CASE o.kind = "ok" ->
           Return(ProcessResponse(o.text, product)) /\ UNCHANGED llm_err
      [] o.kind = "nocontent" ->
           Return(Sentinel \o << " - Error in translation process: " >> \o o.text)
           /\ llm_err' = o.text
      [] o.kind = "error" /\ IsRateLimit(o.text) ->
           pc' = "cooldown" /\ llm_err' = o.text /\ UNCHANGED spanish_description
      [] OTHER ->
           Return(Sentinel \o << " - OpenAI API Error: " >> \o o.text)
           /\ llm_err' = o.text

\* lines 413-427
FirstLlmRequest ==
    /\ pc = "llm1"
    /\ llm_log' = Append(llm_log, FirstRequest(prompt))
    /\ \E o \in LlmOutcomes(product) : AfterFirstRequest(o)
    /\ UNCHANGED << sitemapVars, exit_code, configVars, input_csv, discoveryVars, filterVars, i,
                    tallyVars, fetchVars, detailed_info, english_description,
                    exc, output_csv >>

\* lines 469-470: time.sleep(20)
Cooldown ==
    /\ pc = "cooldown"
    /\ pc' = "llm2"
    /\ UNCHANGED << sitemapVars, exit_code, configVars, input_csv, discoveryVars, filterVars, i,
                    tallyVars, fetchVars, stageVars, llmVars, exc, output_csv >>

\* lines 481-509: what the repeated request's outcome leads to
AfterRetry(o) ==
    IF o.kind = "ok"
    THEN Return(ProcessResponse(o.text, product)) /\ llm_err' = << >>
    ELSE Return(Sentinel \o << " - OpenAI API Error after retry: " >> \o o.text)
         /\ llm_err' = o.text

\* lines 471-509
RetryLlmRequest ==
    /\ pc = "llm2"
    /\ llm_log' = Append(llm_log, RetryRequest(prompt))
    /\ \E o \in RetryOutcomes(product) : AfterRetry(o)
    /\ UNCHANGED << sitemapVars, exit_code, configVars, input_csv, discoveryVars, filterVars, i,
                    tallyVars, fetchVars, detailed_info, english_description,
                    exc, output_csv >>

\* line 883
IsProcessError(spanish) ==
    Contains(spanish, << " - Error in translation process: " >>)

IsFailure(spanish) == StartsWith(spanish, Sentinel)

\* lines 882-896
RecordResult ==
    /\ pc = "classify"
    /\ IF IsFailure(spanish_description)
       THEN /\ failed_count' = failed_count + 1
            /\ error_products' =
                 Append(error_products, ErrorEntry(product, << "translation error" >>))
            /\ UNCHANGED successful_count
       ELSE /\ successful_count' = successful_count + 1
            /\ UNCHANGED << failed_count, error_products >>
    /\ enhanced_products' =
         Append(enhanced_products,
                Enhanced(product, english_description, spanish_description,
                         detailed_info))
    /\ processed_count' = processed_count + 1
    /\ llm_log' = << >>
    /\ llm_err' = << >>
    /\ pc' = "pace"
    /\ UNCHANGED << sitemapVars, exit_code, configVars, input_csv, discoveryVars, filterVars, i,
                    fetchVars, stageVars, exc, output_csv >>

\* lines 898-899: time.sleep(1), then the next iteration
Pace ==
    /\ pc = "pace"
    /\ i' = i + 1
    /\ pc' = "loop"
    /\ UNCHANGED << sitemapVars, exit_code, configVars, input_csv, discoveryVars, filterVars,
                    tallyVars, fetchVars, stageVars, llmVars, exc, output_csv >>

\* an except clause that logs the error and drops the product
HandleExceptionDropsProduct ==
    /\ pc = "except"
    /\ processed_count' = processed_count + 1
    /\ failed_count' = failed_count + 1
    /\ error_products' =
         Append(error_products,
                ErrorEntry(product, << "processing error: " >> \o exc \o << "..." >>))
    /\ exc' = << >>
    /\ i' = i + 1
    /\ pc' = "loop"
    /\ UNCHANGED << sitemapVars, exit_code, configVars, input_csv, discoveryVars, filterVars,
                    enhanced_products, successful_count, fetchVars, stageVars,
                    llmVars, output_csv >>

\* an except clause that ends the run
HandleExceptionAborts ==
    /\ pc = "except"
    /\ Exit(1)
    /\ UNCHANGED << sitemapVars, configVars, input_csv, discoveryVars, filterVars, i, tallyVars,
                    fetchVars, stageVars, llmVars, exc, output_csv >>

\* lines 901-912
HandleException ==
    /\ pc = "except"
    /\ enhanced_products' =
         Append(enhanced_products,
                Enhanced(product, << "ERROR - " >> \o exc,
                         Sentinel \o << " - Error: " >> \o exc, EmptyInfo))
    /\ processed_count' = processed_count + 1
    /\ failed_count' = failed_count + 1
    /\ error_products' =
         Append(error_products,
                ErrorEntry(product, << "processing error: " >> \o exc \o << "..." >>))
    /\ exc' = << >>
    /\ i' = i + 1
    /\ pc' = "loop"
    /\ UNCHANGED << sitemapVars, exit_code, configVars, input_csv, discoveryVars, filterVars,
                    successful_count, fetchVars, stageVars, llmVars, output_csv >>

\* lines 682-689: one row per record
CsvRows(records) ==
    [ k \in 1..Len(records) |->
        << records[k].code, records[k].name, records[k].image_url,
           records[k].product_url, records[k].spanish_description >> ]

\* lines 914-916
WriteOutput ==
    /\ pc = "write"
    /\ output_csv' = IF enhanced_products # << >>
                     THEN CsvRows(enhanced_products) ELSE output_csv
    /\ pc' = "summary"
    /\ UNCHANGED << sitemapVars, exit_code, configVars, input_csv, discoveryVars, filterVars, i,
                    tallyVars, fetchVars, stageVars, llmVars, exc >>

\* lines 918-936: the summary is printed and the script ends
Summary ==
    /\ pc = "summary"
    /\ Exit(0)
    /\ UNCHANGED << sitemapVars, configVars, input_csv, discoveryVars, filterVars, i, tallyVars,
                    fetchVars, stageVars, llmVars, exc, output_csv >>

Next ==
    \/ ModuleLoad
    \/ ValidateUrl
    \/ CreateTemplate
    \/ ReadCodes
    \/ SanityCheck
    \/ UseRootAsProductSitemap
    \/ ReadSitemapIndex
    \/ FetchSitemapFails
    \/ CheckFound
    \/ ProcessSitemap
    \/ FilterProducts
    \/ LimitProducts
    \/ LoopHead
    \/ FetchSucceeds
    \/ FetchNotFound
    \/ FetchFails
    \/ RecordFetchFailure
    \/ ParsePage
    \/ ComposeDescription
    \/ TranslateSkipped
    \/ TranslatePrepare
    \/ FirstLlmRequest
    \/ Cooldown
    \/ RetryLlmRequest
    \/ RecordResult
    \/ Pace
    \/ HandleException
    \/ WriteOutput
    \/ Summary

Spec == Init /\ [][Next]_vars

----------------------------------------------------------------------------
(* parse_product_sitemap, one <url> element at a time: the loop body of     *)
(* lines 530-609 with its local variables.                                 *)

\* the variables of the script, which a call of parse_product_sitemap leaves
\* alone
scriptVars ==
    << exit_code, configVars, input_csv, discoveryVars, filterVars, i, tallyVars,
       fetchVars, stageVars, llmVars, exc, output_csv >>

\* the texts a <url> element of a product sitemap can carry
Locs ==
    { ProductA.product_url, ProductC.product_url,
      << "https://", "host", "/", "products", "/", "set", "-", "B", "-", "red" >>,
      << "https://", "host", "/", "products", "/", "key", "-", "7", "/" >>,
      << "https://", "host", "/", "pages", "/", "about" >> }
Titles ==
    { << >>, << "Wiha ", "C", " ", "Torx", " ", "Key" >>,
      << "Torx", " ", "Key", " ", "(", "7", ")" >>, << "Wiha ", " " >> }
Captions ==
    { << >>,
      << "Wiha ", "A", " ", "Long", " ", "Nose", " ", "Pliers" >>,
      << "Photo", " ", "Wiha ", " ", "B", " ", "Bit", " ", "Set", " " >>,
      << "Wiha ", "B" >>,
      << "Wiha " >>,
      << "Wiha ", "Wiha ", "B", " ", "Bit", " ", "Set" >>,
      << "Bit", " ", "Set", " ", "-", "7", "-" >> }
UrlElems ==
    { UrlElem(loc, image_loc, title, caption) :
        loc \in Locs, image_loc \in { << >>, << "a.jpg" >> },
        title \in Titles, caption \in Captions }

locals == [ code |-> product_code, name |-> product_name ]

InitSitemap ==
    /\ pc = "url_elem"
    /\ url_elem \in UrlElems
    /\ product_code = << >>
    /\ product_name = << >>
    /\ sitemap_data = << >>
    /\ exit_code = -1
    /\ SITEMAP_URL = RootProductUrl
    /\ OPENAI_API_KEY = FALSE
    /\ MAX_PRODUCTS = 0
    /\ FORCE_MODE = FALSE
    /\ input_csv = [ exists |-> FALSE, rows |-> << >> ]
    /\ product_codes = << >>
    /\ xml_content = << >>
    /\ product_sitemaps = << >>
    /\ sm_idx = 0
    /\ all_product_data = << >>
    /\ total_products = 0
    /\ found_codes_set = {}
    /\ missing_codes = {}
    /\ filtered_data = << >>
    /\ products_to_process = << >>
    /\ i = 0
    /\ enhanced_products = << >>
    /\ processed_count = 0
    /\ successful_count = 0
    /\ failed_count = 0
    /\ error_products = << >>
    /\ attempt = 0
    /\ fetch_log = << >>
    /\ html_content = NonePage
    /\ detailed_info = EmptyInfo
    /\ english_description = << >>
    /\ spanish_description = << >>
    /\ llm_log = << >>
    /\ llm_err = << >>
    /\ exc = << >>
    /\ output_csv = << >>

\* lines 531-551
NextUrlElem ==
    /\ pc = "url_elem"
    /\ pc' = IF IsProductUrl(url_elem) THEN "method1" ELSE "return"
    /\ UNCHANGED << scriptVars, sitemapVars >>

\* lines 555-563
Method1 ==
    /\ pc = "method1"
    /\ product_code' = method1(url_elem, locals).code
    /\ product_name' = method1(url_elem, locals).name
    /\ pc' = "method2"
    /\ UNCHANGED << scriptVars, url_elem, sitemap_data >>

\* lines 565-573
Method2 ==
    /\ pc = "method2"
    /\ product_code' = method2(url_elem, locals).code
    /\ product_name' = method2(url_elem, locals).name
    /\ pc' = "method3"
    /\ UNCHANGED << scriptVars, url_elem, sitemap_data >>

\* lines 575-589
Method3 ==
    /\ pc = "method3"
    /\ product_code' = method3(url_elem, locals).code
    /\ product_name' = method3(url_elem, locals).name
    /\ pc' = "method4"
    /\ UNCHANGED << scriptVars, url_elem, sitemap_data >>

\* lines 591-596
Method4 ==
    /\ pc = "method4"
    /\ product_code' = method4(url_elem, locals).code
    /\ product_name' = method4(url_elem, locals).name
    /\ pc' = "append"
    /\ UNCHANGED << scriptVars, url_elem, sitemap_data >>

\* lines 598-609
AppendRecord ==
    /\ pc = "append"
    /\ sitemap_data' = sitemap_data \o ProductRecord(url_elem, locals)
    /\ pc' = "return"
    /\ UNCHANGED << scriptVars, url_elem, product_code, product_name >>

NextSitemap ==
    \/ NextUrlElem
    \/ Method1
    \/ Method2
    \/ Method3
    \/ Method4
    \/ AppendRecord

SpecSitemap == InitSitemap /\ [][NextSitemap]_vars

----------------------------------------------------------------------------
(* Properties.                                                             *)

\* the positions of the script inside the body of the per-product loop
BodyPcs == { "fetch", "fetched", "compose", "translate", "llm1", "cooldown",
             "llm2", "classify", "except" }
\* the positions after the loop
AfterLoopPcs == { "write", "summary" }

\* the ProductRecord an EnhancedProductRecord was copied from
BaseOf(e) == Rec(e.code, e.name, e.image_url, e.product_url)

\* the english_description of the three kinds of failure record
IsErrorRecord(e) == StartsWith(e.english_description, << "ERROR - " >>)
IsFetchFailureRecord(e) ==
    e.english_description = << "NOT FOUND", " - Could not fetch product page" >>
BeginsNotFound(text) == Len(text) >= 1 /\ text[1] = "NOT FOUND"

\* the run went through the per-product loop and ended
RunCompleted == pc = "exit" /\ exit_code = 0 /\ products_to_process # << >>

\* C1: every product handed to the per-product loop yields exactly one
\* EnhancedProductRecord: while product i+1 is in work the records are those
\* of the first i products, one each and in order; after its iteration they
\* are those of the first i+1; when the loop has ended there is one record
\* per product, whichever path each product took.
C1_OneRecordPerProduct ==
    /\ \A k \in 1..Len(enhanced_products) :
         /\ k <= Len(products_to_process)
         /\ BaseOf(enhanced_products[k]) = products_to_process[k]
    /\ pc \in BodyPcs =>
         /\ i < Len(products_to_process)
         /\ Len(enhanced_products) = i
    /\ pc = "pace" => Len(enhanced_products) = i + 1
    /\ pc = "loop" => Len(enhanced_products) = i
    /\ pc \in AfterLoopPcs \cup { "exit" } =>
         Len(enhanced_products) = Len(products_to_process)

\* C1 witness: a finished run of three products in which one raised an
\* exception, one had no page and one came back from translation with a
\* sentinel string.
C1_Witness ==
    /\ RunCompleted
    /\ Len(products_to_process) = 3
    /\ Len(enhanced_products) = 3
    /\ \E k \in 1..3 : IsErrorRecord(enhanced_products[k])
    /\ \E k \in 1..3 : IsFetchFailureRecord(enhanced_products[k])
    /\ \E k \in 1..3 :
         /\ ~IsErrorRecord(enhanced_products[k])
         /\ ~IsFetchFailureRecord(enhanced_products[k])
         /\ BeginsNotFound(enhanced_products[k].spanish_description)

\* an exception was raised inside translate_to_spanish and made it give up
TranslationRaised == pc = "classify" /\ llm_err # << >>

\* the step appends, for the current product, the record of the `except`
\* clause of the loop, counts it as failed and goes on with the next product
AppendsErrorRecord ==
    /\ Len(enhanced_products') = Len(enhanced_products) + 1
    /\ LET e == enhanced_products'[Len(enhanced_products')]
       IN  /\ BaseOf(e) = product
           /\ StartsWith(e.english_description, << "ERROR - " >>)
           /\ Len(e.english_description) > 1
           /\ BeginsNotFound(e.spanish_description)
    /\ failed_count' = failed_count + 1
    /\ successful_count' = successful_count
    /\ exit_code' = -1

C3_MissingPageIsRecorded ==
    /\ [][ pc = "fetched" /\ html_content.body = "None" =>
             /\ Len(enhanced_products') = Len(enhanced_products) + 1
             /\ LET e == enhanced_products'[Len(enhanced_products')]
                IN  /\ BaseOf(e) = product
                    /\ BeginsNotFound(e.spanish_description)
             /\ failed_count' = failed_count + 1
             /\ successful_count' = successful_count
             /\ Len(error_products') = Len(error_products) + 1
             /\ StartsWith(error_products'[Len(error_products')],
                           product.code \o << " - " >> \o product.name)
             /\ exit_code' = -1
             /\ pc' = "loop"
             /\ i' = i + 1 ]_vars
    /\ [](pc = "exit" /\ enhanced_products # << >> =>
             /\ exit_code = 0
             /\ Len(output_csv) = Len(products_to_process)
             /\ \A k \in 1..Len(enhanced_products) :
                  IsFetchFailureRecord(enhanced_products[k]) =>
                    /\ output_csv[k][1] = products_to_process[k].code
                    /\ BeginsNotFound(output_csv[k][5])
             /\ ( Len(products_to_process) = 1
                  /\ IsFetchFailureRecord(enhanced_products[1])
                  => Len(output_csv) = 1 /\ failed_count = 1 ))

\* C3 witness: a finished run of a single product whose page was missing.
C3_Witness ==
    /\ RunCompleted
    /\ Len(products_to_process) = 1
    /\ IsFetchFailureRecord(enhanced_products[1])
    /\ Len(output_csv) = 1
    /\ BeginsNotFound(output_csv[1][5])
    /\ failed_count = 1

\* the positions of the script inside translate_to_spanish
TranslatePcs == { "translate", "llm1", "cooldown", "llm2" }

\* an error message that line 468 classifies as a rate limit
SaysRateLimit(msg) == \E k \in 1..Len(msg) : msg[k] \in { "Rate limit", "rate limit" }

\* C4 as stated: every localization failure, a missing credential included,
\* comes back as a string that begins with "NOT FOUND".
C4_AsStated ==
    pc = "classify" /\ (~OPENAI_API_KEY \/ llm_err # << >>)
        => BeginsNotFound(spanish_description)

\* C4 amended: every localization failure other than a missing credential
\* (an error of the generation service, a failed retry after a rate limit,
\* any other error inside the function) comes back as a string that begins
\* with "NOT FOUND", none is raised to the loop, and the loop counts the
\* product as failed; with no credential the function returns the skip
\* message, which does not carry the prefix, and the product is counted as
\* successful.
C4_FailuresAreSentinelStrings ==
    /\ [](pc = "classify" /\ llm_err # << >> =>
             /\ BeginsNotFound(spanish_description)
             /\ exc = << >>)
    /\ [](pc = "classify" /\ ~OPENAI_API_KEY =>
             /\ llm_err = << >>
             /\ ~BeginsNotFound(spanish_description))
    /\ [][ (pc \in TranslatePcs) =>
             /\ exc' = << >>
             /\ pc' \in TranslatePcs \cup { "classify" } ]_vars
    /\ [][ pc = "classify" =>
             IF BeginsNotFound(spanish_description)
             THEN failed_count' = failed_count + 1
                  /\ successful_count' = successful_count
             ELSE successful_count' = successful_count + 1
                  /\ failed_count' = failed_count ]_vars

\* C4 witness: translate_to_spanish is about to return the sentinel string of
\* a failed retry.
C4_Witness ==
    /\ pc = "classify"
    /\ llm_err # << >>
    /\ Len(llm_log) = 2
    /\ StartsWith(spanish_description,
                  << "NOT FOUND", " - OpenAI API Error after retry: " >>)

\* C5: with no credential translate_to_spanish returns the skip message
\* verbatim and no request is ever sent to the generation service.
C5_NoCredentialNoRequest ==
    ~OPENAI_API_KEY =>
        /\ llm_log = << >>
        /\ pc \notin { "llm1", "cooldown", "llm2" }
        /\ pc = "classify" =>
             spanish_description = << "API key not provided. Translation skipped." >>
        /\ \A k \in 1..Len(enhanced_products) :
             LET e == enhanced_products[k]
             IN  ~IsErrorRecord(e) /\ ~IsFetchFailureRecord(e) =>
                   e.spanish_description =
                     << "API key not provided. Translation skipped." >>

\* C5 witness: a run without credential ended and a product went through
\* translation.
C5_Witness ==
    /\ ~OPENAI_API_KEY
    /\ RunCompleted
    /\ \E k \in 1..Len(enhanced_products) :
         enhanced_products[k].spanish_description =
           << "API key not provided. Translation skipped." >>

\* C6: one call of translate_to_spanish sends at most two requests; the
\* second is sent only after the first failed with a rate-limit error and
\* after the cooldown, with the payload of the first; any other error of the
\* first request ends the call with a "NOT FOUND" string; a failure of the
\* second request ends the call with a "NOT FOUND" string and no third
\* request.
C6_AtMostOneRetry ==
    /\ [](/\ Len(llm_log) <= 2
          /\ Len(llm_log) = 2 => llm_log[2] = llm_log[1]
          /\ \A k \in 1..Len(llm_log) : llm_log[k].model = "gpt-4o")
    /\ [][ Len(llm_log') > Len(llm_log) =>
             \/ pc = "llm1" /\ llm_log = << >> /\ Len(llm_log') = 1
             \/ /\ pc = "llm2"
                /\ Len(llm_log) = 1
                /\ Len(llm_log') = 2
                /\ SaysRateLimit(llm_err) ]_vars
    /\ [][ pc' = "cooldown" => pc \in { "llm1", "cooldown" } /\ SaysRateLimit(llm_err') ]_vars
    /\ [][ pc' = "llm2" => pc \in { "cooldown", "llm2" } ]_vars
    /\ [][ pc = "llm1" /\ llm_err' # << >> /\ ~SaysRateLimit(llm_err') =>
             /\ pc' = "classify"
             /\ BeginsNotFound(spanish_description') ]_vars
    /\ [][ pc = "llm2" /\ pc' # "llm2" =>
             /\ pc' = "classify"
             /\ Len(llm_log') = 2
             /\ llm_err' # << >> => BeginsNotFound(spanish_description') ]_vars

\* C6 witness: the retry has been sent and has failed.
C6_Witness ==
    /\ pc = "classify"
    /\ Len(llm_log) = 2
    /\ llm_log[1] = llm_log[2]
    /\ llm_err # << >>
    /\ BeginsNotFound(spanish_description)

\* C7: one call of fetch_product_page sends at most three requests; a 404 or
\* a successful response is the last request of its call; a request error is
\* followed by another attempt only while fewer than three were made, and the
\* third one returns None; the call returns the page of the first successful
\* response; it never raises.
C7_FetchIsBounded ==
    /\ [](/\ Len(fetch_log) <= 3
          /\ \A k \in 1..(Len(fetch_log) - 1) :
               fetch_log[k] \in { "timeout", "connection", "http error" }
          /\ pc = "fetch" =>
               /\ attempt = Len(fetch_log) + 1
               /\ attempt <= 3
               /\ \A k \in 1..Len(fetch_log) : fetch_log[k] \notin { "200", "404" }
          /\ pc = "fetched" =>
               /\ Len(fetch_log) >= 1
               /\ LET last == fetch_log[Len(fetch_log)]
                  IN  /\ last = "200" => html_content \in PagesAt(product.product_url)
                      /\ last = "404" => html_content.body = "None"
                      /\ last \notin { "200", "404" } =>
                           Len(fetch_log) = 3 /\ html_content.body = "None")
    /\ [][ pc = "fetch" =>
             /\ pc' \in { "fetch", "fetched" }
             /\ exc' = << >>
             /\ Len(fetch_log') <= Len(fetch_log) + 1 ]_vars

\* C7 witness: the third attempt has failed and the call has returned None.
C7_Witness ==
    /\ pc = "fetched"
    /\ fetch_log = << "timeout", "connection", "http error" >>
    /\ html_content.body = "None"

\* the smaller of two numbers
Smaller(a, b) == IF a <= b THEN a ELSE b

\* C8: with MAX_PRODUCTS > 0 the products processed are the first
\* MAX_PRODUCTS entries of the filtered list, in order (all of them when the
\* list is shorter), and no more than MAX_PRODUCTS page fetches are started,
\* records produced or rows written; with MAX_PRODUCTS = 0 the whole filtered
\* list is processed.
C8_CeilingIsHonored ==
    pc # "limit" =>
        /\ MAX_PRODUCTS > 0 =>
             /\ Len(products_to_process) = Smaller(MAX_PRODUCTS, Len(filtered_data))
             /\ \A k \in 1..Len(products_to_process) :
                  products_to_process[k] = filtered_data[k]
             /\ Len(enhanced_products) <= MAX_PRODUCTS
             /\ Len(output_csv) <= MAX_PRODUCTS
             /\ pc \in BodyPcs => i + 1 <= MAX_PRODUCTS
        /\ MAX_PRODUCTS = 0 => products_to_process = filtered_data
        /\ pc \in AfterLoopPcs =>
             /\ i = Len(products_to_process)
             /\ \A k \in 1..Len(products_to_process) :
                  BaseOf(enhanced_products[k]) = products_to_process[k]
        /\ pc = "summary" /\ products_to_process # << >> =>
             /\ Len(output_csv) = Len(products_to_process)
             /\ \A k \in 1..Len(output_csv) :
                  output_csv[k][1] = products_to_process[k].code

\* C8 witness: a finished run in which the ceiling cut a list of three
\* products to two.
C8_Witness ==
    /\ RunCompleted
    /\ MAX_PRODUCTS = 2
    /\ Len(filtered_data) = 3
    /\ Len(output_csv) = 2
    /\ Len(enhanced_products) = 2

\* the positions of the script from the end of the filter to the end of main
FilteredPcs == { "limit", "loop", "pace" } \cup BodyPcs \cup AfterLoopPcs

InAllowList(r) == \E k \in 1..Len(product_codes) : product_codes[k] = r.code

\* s ends with suffix
EndsWith(s, suffix) ==
    /\ Len(suffix) <= Len(s)
    /\ SubSeq(s, Len(s) - Len(suffix) + 1, Len(s)) = suffix

\* C9: with a non-empty allow-list the filter keeps exactly the discovered
\* records whose code is in the allow-list, in order; the matched set is the
\* set of allow-list codes that occur among the discovered records; the
\* missing set is the allow-list minus the matched set; in force mode the
\* kept records are followed by exactly one stub per missing code, named
\* "Product <code>", without image and with a URL ending in
\* "/products/<code>"; without force mode nothing is added.
C9_FilterAndStubs ==
    pc \in FilteredPcs /\ product_codes # << >> =>
        LET allow == { product_codes[k] : k \in 1..Len(product_codes) }
            discovered == { all_product_data[k].code : k \in 1..Len(all_product_data) }
            kept == SelectSeq(all_product_data, InAllowList)
            n == Len(kept)
        IN  /\ found_codes_set = allow \cap discovered
            /\ missing_codes = allow \ found_codes_set
            /\ Len(filtered_data) >= n
            /\ SubSeq(filtered_data, 1, n) = kept
            /\ IF FORCE_MODE
               THEN /\ Len(filtered_data) = n + Cardinality(missing_codes)
                    /\ \A c \in missing_codes :
                         Cardinality({ k \in (n + 1)..Len(filtered_data) :
                                         filtered_data[k].code = c }) = 1
                    /\ \A k \in (n + 1)..Len(filtered_data) :
                         LET stub == filtered_data[k]
                         IN  /\ stub.code \in missing_codes
                             /\ stub.name = << "Product", " " >> \o stub.code
                             /\ stub.image_url = << >>
                             /\ EndsWith(stub.product_url,
                                         << "/", "products", "/" >> \o stub.code)
               ELSE filtered_data = kept

\* C9 witness: allow-list A, B, C, discovered A and C, force mode on: matched
\* {A, C}, missing {B}, and a stub for B at the end of the kept records.
C9_Witness ==
    /\ pc = "limit"
    /\ FORCE_MODE
    /\ product_codes = << << "A" >>, << "B" >>, << "C" >> >>
    /\ { all_product_data[k].code : k \in 1..Len(all_product_data) }
         = { << "A" >>, << "C" >> }
    /\ found_codes_set = { << "A" >>, << "C" >> }
    /\ missing_codes = { << "B" >> }
    /\ Len(filtered_data) = 3
    /\ filtered_data[3].code = << "B" >>
    /\ EndsWith(filtered_data[3].product_url, << "/", "products", "/", "B" >>)

HasMarker(loc) == Contains(loc, << "sitemap", "_products" >>)

\* the positions of the <sitemap> elements of doc whose <loc> qualifies
Qualifying(doc) == { k \in 1..Len(doc) : doc[k] # << >> /\ HasMarker(doc[k][1]) }

\* C10: get_product_sitemaps returns the <loc> of the qualifying <sitemap>
\* elements of the root document, one entry per element and in document
\* order, and nothing else; when SITEMAP_URL itself contains
\* 'sitemap_products' no root document is read and the list is the URL alone.
C10_ProductSitemapsInDocumentOrder ==
    /\ HasMarker(SITEMAP_URL) => xml_content = << >>
    /\ pc = "found" =>
         IF HasMarker(SITEMAP_URL)
         THEN product_sitemaps = << SITEMAP_URL >>
         ELSE LET q == Qualifying(xml_content)
              IN  /\ Len(product_sitemaps) = Cardinality(q)
                  /\ \A k \in q :
                       product_sitemaps[Cardinality({ m \in q : m <= k })]
                         = xml_content[k][1]

\* C10 witness: a root document whose first element does not qualify and
\* whose second does.
C10_Witness ==
    /\ pc = "found"
    /\ Len(xml_content) = 2
    /\ xml_content[1] = << LocPages >>
    /\ product_sitemaps = << LocProducts2 >>

\* C12 as stated: every record handed to the per-product loop, the stubs of
\* force mode included, has a non-empty code.
C12_AsStated ==
    \A k \in 1..Len(products_to_process) : products_to_process[k].code # << >>

\* C13 as stated: no two records handed to the per-product loop, and no two
\* rows of the output file, carry the same product code.
C13_AsStated ==
    /\ \A j, k \in 1..Len(products_to_process) :
         j # k => products_to_process[j].code # products_to_process[k].code
    /\ \A j, k \in 1..Len(output_csv) :
         j # k => output_csv[j][1] # output_csv[k][1]

\* C14 as stated: the text returned by create_product_description holds no
\* run of three newlines.
C14_AsStated ==
    ~Contains(english_description, << "\n", "\n", "\n" >>)

\* the steps of main before the per-product loop is set up (lines 19-834)
StartupPcs == { "import", "validate", "input", "sanity", "discover", "found",
                "sitemaps" }

\* the per-product loop of lines 852-912
LoopPcs == { "loop", "pace" } \cup BodyPcs

\* no product page was fetched and no LLM request was made
NoProductWork ==
    /\ i = 0
    /\ attempt = 0
    /\ fetch_log = << >>
    /\ html_content = NonePage
    /\ llm_log = << >>
    /\ enhanced_products = << >>
    /\ processed_count = 0

\* no sitemap was fetched either
NoNetworkRequest ==
    /\ xml_content = << >>
    /\ product_sitemaps = << >>
    /\ all_product_data = << >>
    /\ NoProductWork

\* C15: only startup failures are fatal.  A step that ends the process with a
\* non-zero status is taken from the startup phase, where no product page
\* has been fetched and no LLM request made, and the process that ended so
\* has done no product work; no step of the per-product loop changes the
\* exit status or ends the process, whatever failed in it; and a missing
\* input file is answered by writing the template file and status zero,
\* with no network request made.
C15_OnlyStartupFailuresAreFatal ==
    /\ [](pc \in StartupPcs => NoProductWork)
    /\ [](exit_code \notin { -1, 0 } => pc = "exit" /\ NoProductWork)
    /\ [](input_csv = TemplateFile =>
            pc = "exit" /\ exit_code = 0 /\ NoNetworkRequest)
    /\ [][ /\ (exit_code' # exit_code /\ exit_code' # 0) => pc \in StartupPcs
           /\ (pc \in LoopPcs) =>
                exit_code' = exit_code /\ pc' \in LoopPcs \cup { "write" }
           /\ (pc = "input" /\ ~input_csv.exists) =>
                input_csv' = TemplateFile /\ exit_code' = 0 /\ pc' = "exit"
         ]_vars

\* a product sitemap was read, the fetch of the next one failed and the
\* process ended with status 1
C15_Witness ==
    /\ pc = "exit"
    /\ exit_code = 1
    /\ all_product_data # << >>
    /\ sm_idx >= 2

\* C16 as stated: the step that finishes product k while a product k+1 is
\* still to be fetched is always the pacing delay of line 899.
C16_AsStated ==
    [][ (i' = i + 1 /\ i' < Len(products_to_process)) => pc = "pace" ]_vars

\* the specification entries each source of the page in work offers
TableSpecs == DictUpdate(<< >>, html_content.tables)
ListSpecs == DictUpdate(<< >>, html_content.dl)
JsonLdSpecs ==
    IF html_content.jsonld.kind = "dict"
    THEN DictUpdate(<< >>, html_content.jsonld.props) ELSE << >>

\* the keys of a dict
Keys(d) == { d[k][1] : k \in 1..Len(d) }

\* the description rule of lines 195-196
JsonLdDescriptionRule ==
    /\ html_content.descSel # << >> =>
         detailed_info.description = html_content.descSel
    /\ ( /\ html_content.descSel = << >>
         /\ html_content.jsonld.kind = "dict"
         /\ html_content.jsonld.description # << >> ) =>
         detailed_info.description = html_content.jsonld.description

C18_AsStated ==
    [][ (pc = "fetched" /\ ~Falsy(html_content)) =>
            (pc' = "compose" /\ exc' = exc) ]_vars

\* the records whose spanish_description begins with "NOT FOUND"
NotFoundRecords ==
    { k \in 1..Len(enhanced_products) :
        BeginsNotFound(enhanced_products[k].spanish_description) }

\* the states between two iterations of the loop of line 852, and the states
\* after it
BoundaryPcs == { "loop", "pace" } \cup AfterLoopPcs \cup { "exit" }

\* C19: at every iteration boundary and at the end of the run the processed
\* products are the successful and the failed ones and there is one record
\* for each; there is one error entry per failed product; the failed
\* products are those whose record's spanish_description begins with
\* "NOT FOUND"; and when the loop has ended every product to process has
\* been processed.
C19_CountersAreConsistent ==
    pc \in BoundaryPcs =>
        /\ processed_count = successful_count + failed_count
        /\ processed_count = Len(enhanced_products)
        /\ Len(error_products) = failed_count
        /\ failed_count = Cardinality(NotFoundRecords)
        /\ (pc \in AfterLoopPcs \/ RunCompleted) =>
             processed_count = Len(products_to_process)

\* a run ended with one product translated and one failed
C19_Witness ==
    /\ RunCompleted
    /\ successful_count = 1
    /\ failed_count = 1
    /\ Len(products_to_process) = 2
    /\ NotFoundRecords = { 2 }

\* the codes of S in the order of their first occurrence in the allow-list
RECURSIVE InListOrder(_, _)
InListOrder(codes, S) ==
    IF codes = << >> THEN << >>
    ELSE IF Head(codes) \in S
         THEN << Head(codes) >> \o InListOrder(Tail(codes), S \ { Head(codes) })
         ELSE InListOrder(Tail(codes), S)

\* the list the inputs would fix: the matched sitemap records, then one stub
\* per missing code in allow-list order
ListFixedByInputs ==
    FilterByCodes(all_product_data, product_codes)
        \o Stubs(InListOrder(product_codes, missing_codes), BaseUrl(SITEMAP_URL))

\* C21 as stated: in force mode the stubs follow the matched records in the
\* order of the missing codes in the allow-list, so the list to process, and
\* the stubs the ceiling MAX_PRODUCTS keeps, are determined by the inputs.
C21_AsStated ==
    (FORCE_MODE /\ missing_codes # {}) =>
        /\ pc = "limit" => filtered_data = ListFixedByInputs
        /\ pc \in LoopPcs =>
             products_to_process = ApplyLimit(ListFixedByInputs, MAX_PRODUCTS)

----------------------------------------------------------------------------
(* Properties of parse_product_sitemap (specification SpecSitemap).        *)

\* the first non-empty code of a sequence of candidate codes
RECURSIVE FirstCode(_)
FirstCode(candidates) ==
    IF candidates = << >> THEN << >>
    ELSE IF Head(candidates) # << >> THEN Head(candidates)
    ELSE FirstCode(Tail(candidates))

\* what each method alone reads of a <url> element
Candidate1(e) == method1(e, NoneFound).code
Candidate2(e) == method2(e, NoneFound).code
Candidate3(e) == method3(e, NoneFound).code
Candidate4(e) ==
    method4(e, [ code |-> << >>, name |-> method2(e, method1(e, NoneFound)).name ]).code

PliersCaption == << "Wiha ", "A", " ", "Long", " ", "Nose", " ", "Pliers" >>

C20_Method4NeverDecides ==
    /\ [](product_name # << >> => product_code # << >>)
    /\ [](pc = "method4" => ~Method4Applies(locals))
    /\ [][ pc = "method4" => product_code' = product_code ]_vars
    /\ [](pc = "return" /\ IsProductUrl(url_elem) =>
            ( sitemap_data = << >>
              <=> /\ Candidate1(url_elem) = << >>
                  /\ Candidate2(url_elem) = << >>
                  /\ Candidate3(url_elem) = << >> ))

\* C20 witness: an element is dropped although its caption holds digits
\* between hyphens, the pattern of method 4.
C20_Witness ==
    /\ pc = "return"
    /\ IsProductUrl(url_elem)
    /\ EnclosedDigits(url_elem.caption) # << >>
    /\ product_code = << >>
    /\ sitemap_data = << >>

====
